---- MODULE Spec2Model ----
(***************************************************************************)
(* Model of src/main.py: the STALCRAFT market analyzer.  One run of main() *)
(* fetches a JSON document, groups the listings of data['prices'] by       *)
(* quality, prints a per-quality section, a market summary and the five    *)
(* most recent listings.  Every print of the program appends an event to   *)
(* one of the output variables; every statement that can raise moves the   *)
(* run to the except clauses of main().                                    *)
(***************************************************************************)
EXTENDS Integers, Sequences, FiniteSets, TLC

----------------------------------------------------------------------------
(* Bounds of the model *)

\* longest prices sequence built from the full listing domain
MaxLen == 2
\* longest prices sequence built from the reduced listing domain
MaxLong == 6
\* longest prices sequence built from one listing per quality level
QltLen == 2
\* largest integer quality level fed to the program (levels above 5 are out of range)
MaxQlt == 7

(* Program constants *)

\* the slice [:5] of the recent listings
RecentLimit == 5
\* Python's None, the result of dict.get for a missing key (an integer outside every qlt)
None == -999

----------------------------------------------------------------------------
(* Python values *)

\* prices; the small ones exercise the rounding: 5 puts both recommendations on a
\* tie (4.5 and 5.5), 3 rounds up (2.7)
Prices == {100, 200}
SmallPrices == {3, 5}
\* well-formed ISO-8601 time strings of one format, named by their rank in string order
Times == {1, 2}
\* a time string datetime.fromisoformat rejects; as a string it sorts after the digits
BadTime == 3
\* integer quality levels
QltRange == (-1)..MaxQlt

\* dict.get(key, default)
dict_get(d, key, default) == IF key \in DOMAIN d THEN d[key] ELSE default

\* the additional mapping with an optional qlt and an optional bonus marker
Additional(q, bonus) ==
    [k \in (IF q = None THEN {} ELSE {"qlt"}) \cup (IF bonus THEN {"bonus_properties"} ELSE {})
        |-> IF k = "qlt" THEN q ELSE 1]

NoAdditional == Additional(None, FALSE)

\* a listing: a dict whose keys price, time and additional may each be missing
Listing(p, t, hasAdditional, a) ==
    [k \in (IF p = None THEN {} ELSE {"price"}) \cup (IF t = None THEN {} ELSE {"time"})
           \cup (IF hasAdditional THEN {"additional"} ELSE {})
        |-> CASE k = "price" -> p
              [] k = "time" -> t
              [] OTHER -> a]

\* the additional mappings of the full listing domain
Additionals ==
    {Additional(q, b) : q \in {None, 0, 1, MaxQlt}, b \in {FALSE}}
    \cup {Additional(q, b) : q \in {None, 0}, b \in {TRUE}}

\* listings that follow the data model
ValidListings ==
    {Listing(p, t, TRUE, a) : p \in Prices, t \in Times, a \in Additionals}
    \cup {Listing(p, 1, TRUE, Additional(q, FALSE)) : p \in SmallPrices, q \in {0, 1}}

\* listings at the edges: no price, no time, an unparsable time, no additional key
EdgeListings ==
    { Listing(None, 1, TRUE, Additional(0, FALSE)),
      Listing(None, 2, TRUE, Additional(0, TRUE)),
      Listing(100, None, TRUE, Additional(1, FALSE)),
      Listing(100, BadTime, TRUE, Additional(0, FALSE)),
      Listing(200, 2, FALSE, NoAdditional) }

Listings == ValidListings \cup EdgeListings

\* the reduced domain of the long sequences: bucketed at either time, or bonus
SlimListings ==
    {Listing(100, t, TRUE, Additional(0, FALSE)) : t \in Times}
    \cup {Listing(100, 1, TRUE, Additional(1, TRUE))}

\* the three kinds of listing: bucketed, bonus, neither
KindListings == {Listing(100, 1, TRUE, a) :
                    a \in {Additional(0, FALSE), Additional(1, TRUE), Additional(None, FALSE)}}

\* one listing per integer quality level
QltListings == {Listing(100, 1, TRUE, Additional(q, FALSE)) : q \in QltRange}

SeqsOf(S, lo, hi) == UNION {[1..n -> S] : n \in lo..hi}

\* the prices sequences the endpoint may serve
PriceLists ==
    SeqsOf(Listings, 0, MaxLen)
    \cup SeqsOf(SlimListings, MaxLen + 1, MaxLong)
    \cup SeqsOf(KindListings, MaxLen + 1, MaxLen + 2)
    \cup SeqsOf(QltListings, 1, QltLen)

\* decoded JSON documents: with a prices field, or a mapping without it
Documents == {[k \in {"prices"} |-> ps] : ps \in PriceLists} \cup {[k \in {"other"} |-> <<>>]}

\* HTTP responses: a status code and a body that is a document or not JSON at all
Responses ==
    {[status_code |-> 200, is_json |-> TRUE, body |-> d] : d \in Documents}
    \cup {[status_code |-> c, is_json |-> j, body |-> [k \in {"other"} |-> <<>>]] :
            c \in {200, 404, 500}, j \in {FALSE}}
    \cup {[status_code |-> 404, is_json |-> TRUE, body |-> [k \in {"prices"} |-> <<>>]]}

----------------------------------------------------------------------------
(* Pure functions *)

\* mutant: the table ends at level 4
get_quality_name_short(qlt) ==
    CASE qlt = 0 -> "Common"
      [] qlt = 1 -> "Uncommon"
      [] qlt = 2 -> "Special"
      [] qlt = 3 -> "Rare"
      [] qlt = 4 -> "Legendary"
      [] OTHER -> "Unknown"

\* get_quality_name: the fixed table with the default "Unknown"
get_quality_name(qlt) ==
    CASE qlt = 0 -> "Common"
      [] qlt = 1 -> "Uncommon"
      [] qlt = 2 -> "Special"
      [] qlt = 3 -> "Rare"
      [] qlt = 4 -> "Legendary"
      [] qlt = 5 -> "Exclusive"
      [] OTHER -> "Unknown"

\* quality_colors.get(qlt, Fore.WHITE)
quality_colors_get(qlt) ==
    CASE qlt = 0 -> "WHITE"
      [] qlt = 1 -> "GREEN"
      [] qlt = 2 -> "BLUE"
      [] qlt = 3 -> "MAGENTA"
      [] qlt = 4 -> "YELLOW"
      [] qlt = 5 -> "RED"
      [] OTHER -> "WHITE"

\* numbers are exact fractions num/den with den > 0; they stand for Python's
\* floats, which agree with them on every value the model produces
Frac(n, d) == [num |-> n, den |-> d]

RECURSIVE SumSeq(_)
SumSeq(s) == IF s = <<>> THEN 0 ELSE Head(s) + SumSeq(Tail(s))

RECURSIVE MinSeq(_)
MinSeq(s) == IF Len(s) = 1 THEN s[1]
             ELSE LET m == MinSeq(Tail(s)) IN IF s[1] <= m THEN s[1] ELSE m

RECURSIVE MaxSeq(_)
MaxSeq(s) == IF Len(s) = 1 THEN s[1]
             ELSE LET m == MaxSeq(Tail(s)) IN IF s[1] >= m THEN s[1] ELSE m

\* statistics.mean
mean(prices) == Frac(SumSeq(prices), Len(prices))

\* x * 0.9 and x * 1.1
times09(x) == Frac(x.num * 9, x.den * 10)
times11(x) == Frac(x.num * 11, x.den * 10)

\* mutant: the fraction is cut off instead of rounded
format_price_truncated(x) == x.num \div x.den

\* format_price: f"{price:,.0f}" rounds to the nearest integer, ties to even;
\* the digits are kept as the integer they spell (the commas are dropped)
format_price(x) ==
    LET q == x.num \div x.den
        r == x.num % x.den
    IN  IF 2 * r < x.den THEN q
        ELSE IF 2 * r > x.den THEN q + 1
        ELSE IF q % 2 = 0 THEN q ELSE q + 1

\* sorted(keys): ascending
RECURSIVE SortedKeys(_)
SortedKeys(S) ==
    IF S = {} THEN <<>>
    ELSE LET m == CHOOSE x \in S : \A y \in S : x <= y
         IN <<m>> \o SortedKeys(S \ {m})

\* mutant: idx goes before the entries of equal key, which reverses the ties
RECURSIVE InsertDesc_unstable(_, _, _)
InsertDesc_unstable(sorted, idx, ps) ==
    IF sorted = <<>> THEN <<idx>>
    ELSE IF ps[Head(sorted)]["time"] > ps[idx]["time"]
         THEN <<Head(sorted)>> \o InsertDesc_unstable(Tail(sorted), idx, ps)
         ELSE <<idx>> \o sorted

\* list.insert keeping a descending, stable order: idx goes after every entry
\* whose key is greater or equal
RECURSIVE InsertDesc(_, _, _)
InsertDesc(sorted, idx, ps) ==
    IF sorted = <<>> THEN <<idx>>
    ELSE IF ps[Head(sorted)]["time"] >= ps[idx]["time"]
         THEN <<Head(sorted)>> \o InsertDesc(Tail(sorted), idx, ps)
         ELSE <<idx>> \o sorted

\* sorted(prices, key=time, reverse=True) as the sequence of positions in prices;
\* Python's sort is stable, also with reverse=True
RECURSIVE SortedByTimeDesc(_, _)
SortedByTimeDesc(ps, n) ==
    IF n = 0 THEN <<>> ELSE InsertDesc(SortedByTimeDesc(ps, n - 1), n, ps)

\* s[:k]
Take(s, k) == SubSeq(s, 1, IF Len(s) < k THEN Len(s) ELSE k)

\* datetime.fromisoformat accepts the string
IsIsoTime(t) == t \in Times

\* truthiness of a qlt value: None and 0 are falsy
Truthy(qlt) == qlt # None /\ qlt # 0

----------------------------------------------------------------------------
(* State *)

VARIABLES
    pc,              \* the statement main() is at
    exception,       \* the exception in flight: "none", "RequestException" or "Exception"
    gets,            \* number of HTTP GETs issued
    response,        \* the response of requests.get
    data,            \* the decoded document
    quality_prices,  \* dict: quality level -> list of prices
    skipped_count,   \* listings skipped for their bonus marker
    i,               \* listings the grouping loop has processed
    k,               \* quality levels the report loop has processed
    recent_items,    \* the sorted, sliced recent listings (positions in prices)
    r,               \* recent listings the last loop has processed
    out,             \* every print, in order
    sections,        \* the per-quality sections printed
    summary,         \* the market summary printed
    rows             \* the recent-activity rows printed

vars == <<pc, exception, gets, response, data, quality_prices, skipped_count, i, k,
          recent_items, r, out, sections, summary, rows>>

NoResponse == [status_code |-> 0, is_json |-> FALSE, body |-> [x \in {"other"} |-> <<>>]]
NoData == [x \in {} |-> <<>>]
EmptyDict == [q \in {} |-> <<>>]

Init ==
    /\ pc = "fetch_auction_data"
    /\ exception = "none"
    /\ gets = 0
    /\ response = NoResponse
    /\ data = NoData
    /\ quality_prices = EmptyDict
    /\ skipped_count = 0
    /\ i = 0
    /\ k = 0
    /\ recent_items = <<>>
    /\ r = 0
    /\ out = <<>>
    /\ sections = <<>>
    /\ summary = <<>>
    /\ rows = <<>>

\* mutant: the exception is swallowed and the run goes on to the completion message
Raise_swallowed(e) == pc' = "complete" /\ exception' = e

\* raise: control leaves the try body for the except clauses
Raise(e) == pc' = "except" /\ exception' = e

analysis_vars == <<quality_prices, skipped_count, i, k, recent_items, r, sections, summary, rows>>

----------------------------------------------------------------------------
(* fetch_auction_data *)

\* the banner and the loading animation
fetch_banner ==
    /\ pc = "fetch_auction_data"
    /\ out' = Append(out, "banner")
    /\ pc' = "requests_get"
    /\ UNCHANGED <<exception, gets, response, data>>
    /\ UNCHANGED analysis_vars

\* requests.get: the one GET; it raises on a network error
requests_get ==
    /\ pc = "requests_get"
    /\ gets' = gets + 1
    /\ \/ /\ Raise("RequestException")
          /\ UNCHANGED response
       \/ /\ \E resp \in Responses : response' = resp
          /\ pc' = "raise_for_status"
          /\ UNCHANGED exception
    /\ UNCHANGED <<data, out>>
    /\ UNCHANGED analysis_vars

\* mutant: only server errors raise
status_is_error_5xx(status_code) == 500 <= status_code /\ status_code < 600

\* the statuses raise_for_status turns into an HTTPError: 4xx and 5xx
status_is_error(status_code) == 400 <= status_code /\ status_code < 600

\* response.raise_for_status(), then the success line
raise_for_status ==
    /\ pc = "raise_for_status"
    /\ IF status_is_error(response.status_code)
       THEN Raise("RequestException") /\ UNCHANGED out
       ELSE /\ out' = Append(out, "fetched")
            /\ pc' = "response_json"
            /\ UNCHANGED exception
    /\ UNCHANGED <<gets, response, data>>
    /\ UNCHANGED analysis_vars

\* response.json(): the JSONDecodeError of requests is a RequestException from
\* requests 2.27 on and a plain ValueError before
response_json ==
    /\ pc = "response_json"
    /\ IF ~response.is_json
       THEN /\ \E e \in {"RequestException", "Exception"} : Raise(e)
            /\ UNCHANGED data
       ELSE /\ data' = response.body
            /\ pc' = "analyze_prices"
            /\ UNCHANGED exception
    /\ UNCHANGED <<gets, response, out>>
    /\ UNCHANGED analysis_vars

----------------------------------------------------------------------------
(* analyze_prices *)

\* mutant: the price replaces the list instead of being appended to it
append_price_overwrite(qp, qlt, price) ==
    [q \in DOMAIN qp \cup {qlt} |-> IF q = qlt THEN <<price>> ELSE qp[q]]

\* quality_prices[qlt].append(price) on a defaultdict(list)
append_price(qp, qlt, price) ==
    [q \in DOMAIN qp \cup {qlt} |->
        IF q = qlt THEN Append(dict_get(qp, qlt, <<>>), price) ELSE qp[q]]

\* mutant: an empty prices sequence is taken for a missing one
prices_missing_or_empty(d) == "prices" \notin DOMAIN d \/ d["prices"] = <<>>

\* data['prices'] raises KeyError
prices_missing(d) == "prices" \notin DOMAIN d

\* mutant: a truthiness test, which takes level 0 for a missing one
has_quality_truthy(qlt) == qlt # None /\ qlt # 0

\* qlt is not None
has_quality(qlt) == qlt # None

\* mutant: the bonus branch counts the listing but does not skip it
group_body_fallthrough(item, qp, skipped) ==
    LET additional == dict_get(item, "additional", NoAdditional)
        qlt == dict_get(additional, "qlt", None)
        counted == IF "bonus_properties" \in DOMAIN additional THEN skipped + 1 ELSE skipped
    IN  IF qlt # None
        THEN IF "price" \notin DOMAIN item
             THEN [raised |-> TRUE, quality_prices |-> qp, skipped_count |-> skipped]
             ELSE [raised |-> FALSE,
                   quality_prices |-> append_price(qp, qlt, item["price"]),
                   skipped_count |-> counted]
        ELSE [raised |-> FALSE, quality_prices |-> qp, skipped_count |-> counted]

\* the body of the grouping loop for one listing: the new dict and counter, or a
\* KeyError when a bucketed listing has no price
group_body(item, qp, skipped) ==
    LET additional == dict_get(item, "additional", NoAdditional)
        qlt == dict_get(additional, "qlt", None)
    IN  IF "bonus_properties" \in DOMAIN additional
        THEN [raised |-> FALSE, quality_prices |-> qp, skipped_count |-> skipped + 1]
        ELSE IF has_quality(qlt)
        THEN IF "price" \notin DOMAIN item
             THEN [raised |-> TRUE, quality_prices |-> qp, skipped_count |-> skipped]
             ELSE [raised |-> FALSE,
                   quality_prices |-> append_price(qp, qlt, item["price"]),
                   skipped_count |-> skipped]
        ELSE [raised |-> FALSE, quality_prices |-> qp, skipped_count |-> skipped]

\* the "Processing n market entries" line, the empty dict and the zero counter
analyze_start ==
    /\ pc = "analyze_prices"
    /\ IF prices_missing(data)
       THEN Raise("Exception") /\ UNCHANGED out
       ELSE /\ out' = Append(out, "processing")
            /\ pc' = "group"
            /\ UNCHANGED exception
    /\ quality_prices' = EmptyDict
    /\ skipped_count' = 0
    /\ UNCHANGED <<gets, response, data, i, k, recent_items, r, sections, summary, rows>>

\* one iteration of the grouping loop
group_item ==
    /\ pc = "group"
    /\ i < Len(data["prices"])
    /\ LET step == group_body(data["prices"][i + 1], quality_prices, skipped_count)
       IN  IF step.raised
           THEN Raise("Exception") /\ UNCHANGED <<quality_prices, skipped_count, i>>
           ELSE /\ quality_prices' = step.quality_prices
                /\ skipped_count' = step.skipped_count
                /\ i' = i + 1
                /\ UNCHANGED <<pc, exception>>
    /\ UNCHANGED <<gets, response, data, k, recent_items, r, out, sections, summary, rows>>

\* the loop is exhausted: the heading of the per-quality analysis
quality_header ==
    /\ pc = "group"
    /\ i = Len(data["prices"])
    /\ out' = Append(out, "quality_header")
    /\ pc' = "report"
    /\ UNCHANGED <<exception, gets, response, data>>
    /\ UNCHANGED analysis_vars

\* the section printed for one quality level
QualitySection(qlt, prices) ==
    LET avg_price == mean(prices)
        min_price == MinSeq(prices)
        max_price == MaxSeq(prices)
    IN  [ qlt      |-> qlt,
          name     |-> get_quality_name(qlt),
          color    |-> quality_colors_get(qlt),
          average  |-> format_price(avg_price),
          minimum  |-> format_price(Frac(min_price, 1)),
          maximum  |-> format_price(Frac(max_price, 1)),
          count    |-> Len(prices),
          standard |-> format_price(times09(avg_price)),
          bargain  |-> format_price(times11(Frac(min_price, 1))) ]

\* one iteration of the report loop over sorted(quality_prices.keys())
report_quality ==
    /\ pc = "report"
    /\ k < Cardinality(DOMAIN quality_prices)
    /\ LET qlt == SortedKeys(DOMAIN quality_prices)[k + 1]
           prices == quality_prices[qlt]
       IN  IF prices = <<>>
           THEN UNCHANGED <<out, sections>>
           ELSE /\ out' = Append(out, "quality")
                /\ sections' = Append(sections, QualitySection(qlt, prices))
    /\ k' = k + 1
    /\ UNCHANGED <<pc, exception, gets, response, data, quality_prices, skipped_count, i,
                   recent_items, r, summary, rows>>

\* the market summary
market_summary ==
    /\ pc = "report"
    /\ k = Cardinality(DOMAIN quality_prices)
    /\ out' = Append(out, "summary")
    /\ summary' = Append(summary, [total_items |-> Len(data["prices"]),
                                   items_with_bonus |-> skipped_count])
    /\ pc' = "sort_recent"
    /\ UNCHANGED <<exception, gets, response, data, quality_prices, skipped_count, i, k,
                   recent_items, r, sections, rows>>

\* the heading of the recent activity and the sort; x['time'] raises KeyError
sort_recent ==
    /\ pc = "sort_recent"
    /\ out' = Append(out, "recent_header")
    /\ LET ps == data["prices"]
       IN  IF \E n \in 1..Len(ps) : "time" \notin DOMAIN ps[n]
           THEN Raise("Exception") /\ UNCHANGED recent_items
           ELSE /\ recent_items' = Take(SortedByTimeDesc(ps, Len(ps)), RecentLimit)
                /\ pc' = "recent"
                /\ UNCHANGED exception
    /\ UNCHANGED <<gets, response, data, quality_prices, skipped_count, i, k, r,
                   sections, summary, rows>>

\* mutant: the name is resolved on truthiness, which leaves level 0 unlabelled
row_quality_name_truthy(qlt) == IF qlt # None /\ qlt # 0 THEN get_quality_name(qlt) ELSE ""

\* get_quality_name(qlt) if qlt is not None else ""
row_quality_name(qlt) == IF qlt # None THEN get_quality_name(qlt) ELSE ""

\* the row printed for one recent listing
RecentRow(idx, item) ==
    LET additional == dict_get(item, "additional", NoAdditional)
        qlt == dict_get(additional, "qlt", None)
        color == IF Truthy(qlt) THEN quality_colors_get(qlt) ELSE "WHITE"
        quality_name == row_quality_name(qlt)
        quality_text == IF quality_name # "" THEN quality_name ELSE ""
    IN  [ idx          |-> idx,
          time         |-> item["time"],
          price        |-> format_price(Frac(item["price"], 1)),
          color        |-> color,
          quality_text |-> quality_text,
          bonus_info   |-> "bonus_properties" \in DOMAIN additional ]

\* one iteration of the loop over recent_items
recent_row ==
    /\ pc = "recent"
    /\ r < Len(recent_items)
    /\ LET idx == recent_items[r + 1]
           item == data["prices"][idx]
       IN  IF ~IsIsoTime(item["time"]) \/ "price" \notin DOMAIN item
           THEN Raise("Exception") /\ UNCHANGED <<r, out, rows>>
           ELSE /\ out' = Append(out, "recent")
                /\ rows' = Append(rows, RecentRow(idx, item))
                /\ r' = r + 1
                /\ UNCHANGED <<pc, exception>>
    /\ UNCHANGED <<gets, response, data, quality_prices, skipped_count, i, k, recent_items,
                   sections, summary>>

\* analyze_prices returns
analyze_return ==
    /\ pc = "recent"
    /\ r = Len(recent_items)
    /\ pc' = "complete"
    /\ UNCHANGED <<exception, gets, response, data, out>>
    /\ UNCHANGED analysis_vars

----------------------------------------------------------------------------
(* main *)

\* the completion message
complete ==
    /\ pc = "complete"
    /\ out' = Append(out, "complete")
    /\ pc' = "done"
    /\ UNCHANGED <<exception, gets, response, data>>
    /\ UNCHANGED analysis_vars

\* except requests.RequestException
except_request ==
    /\ pc = "except"
    /\ exception = "RequestException"
    /\ out' = Append(out, "error_fetching")
    /\ pc' = "done"
    /\ UNCHANGED <<exception, gets, response, data>>
    /\ UNCHANGED analysis_vars

\* except Exception: the diagnostic and the traceback
except_exception ==
    /\ pc = "except"
    /\ exception = "Exception"
    /\ out' = Append(out, "error_analyzing")
    /\ pc' = "done"
    /\ UNCHANGED <<exception, gets, response, data>>
    /\ UNCHANGED analysis_vars

Next ==
    \/ fetch_banner
    \/ requests_get
    \/ raise_for_status
    \/ response_json
    \/ analyze_start
    \/ group_item
    \/ quality_header
    \/ report_quality
    \/ market_summary
    \/ sort_recent
    \/ recent_row
    \/ analyze_return
    \/ complete
    \/ except_request
    \/ except_exception

Spec == Init /\ [][Next]_vars

----------------------------------------------------------------------------
(* Vocabulary of the properties, stated on the input rather than on the code *)

Range(s) == {s[n] : n \in 1..Len(s)}
Last(s) == s[Len(s)]
Min2(a, b) == IF a < b THEN a ELSE b
Abs(x) == IF x < 0 THEN 0 - x ELSE x

\* the document was decoded and carries a prices sequence
HasPrices == "prices" \in DOMAIN data
Input == data["prices"]
Total == Len(Input)

HasKey(j, key) == key \in DOMAIN Input[j]
HasBonus(j) == HasKey(j, "additional") /\ "bonus_properties" \in DOMAIN Input[j]["additional"]
HasQlt(j) == HasKey(j, "additional") /\ "qlt" \in DOMAIN Input[j]["additional"]
QltOf(j) == Input[j]["additional"]["qlt"]

\* positions among the first n listings: bonus, bucketed under q, bucketed, neither
BonusAt(n) == {j \in 1..n : HasBonus(j)}
BucketAt(n, q) == {j \in 1..n : ~HasBonus(j) /\ HasQlt(j) /\ QltOf(j) = q}
BucketedAt(n) == {j \in 1..n : ~HasBonus(j) /\ HasQlt(j)}
UnbucketedAt(n) == {j \in 1..n : ~HasBonus(j) /\ ~HasQlt(j)}

RECURSIVE SumLens(_, _)
SumLens(qp, S) ==
    IF S = {} THEN 0
    ELSE LET q == CHOOSE x \in S : TRUE IN Len(qp[q]) + SumLens(qp, S \ {q})

RECURSIVE SumCounts(_)
SumCounts(secs) == IF secs = <<>> THEN 0 ELSE Head(secs).count + SumCounts(Tail(secs))

RECURSIVE SumPrices(_)
SumPrices(S) ==
    IF S = {} THEN 0
    ELSE LET j == CHOOSE x \in S : TRUE IN Input[j]["price"] + SumPrices(S \ {j})

\* s is num/den rounded to the nearest integer, an exact half going to the even one
IsRounded(s, num, den) ==
    \/ 2 * Abs(s * den - num) < den
    \/ 2 * Abs(s * den - num) = den /\ s % 2 = 0

Printed(event) == event \in Range(out)
GroupingDone == Printed("quality_header")
SummaryPrinted == summary # <<>>
Completed == Printed("complete")
Failed == exception # "none"

----------------------------------------------------------------------------
(* C1 *)

\* C1: after every iteration of the grouping loop the bucket lengths, the bonus
\* counter and the number of processed listings with neither qlt nor bonus marker
\* add up to the number of processed listings; once the loop is exhausted they add
\* up to the length of the input, which is the total the summary prints together
\* with the bonus counter.
C1_Conservation ==
    HasPrices =>
        /\ SumLens(quality_prices, DOMAIN quality_prices) + skipped_count
              + Cardinality(UnbucketedAt(i)) = i
        /\ GroupingDone => i = Total
        /\ SummaryPrinted =>
              /\ summary[1].total_items = Total
              /\ summary[1].items_with_bonus = skipped_count
              /\ SumCounts(sections) + summary[1].items_with_bonus
                    + Cardinality(UnbucketedAt(Total)) = summary[1].total_items

\* a non-empty input with a bucketed, a bonus and an unbucketed listing was summarised
C1_Witness ==
    /\ HasPrices
    /\ SummaryPrinted
    /\ SumCounts(sections) >= 1
    /\ summary[1].items_with_bonus >= 1
    /\ Cardinality(UnbucketedAt(Total)) >= 1

----------------------------------------------------------------------------
(* C2 *)

\* C2: a listing with a bonus marker, with or without qlt, adds its price to no
\* bucket and to no section count, adds exactly one to the bonus counter and is
\* counted in the total.
C2_BonusPrecedence ==
    HasPrices =>
        /\ skipped_count = Cardinality(BonusAt(i))
        /\ \A q \in DOMAIN quality_prices :
              Len(quality_prices[q]) = Cardinality(BucketAt(i, q))
        /\ \A n \in 1..Len(sections) :
              sections[n].count = Cardinality(BucketAt(Total, sections[n].qlt))
        /\ SummaryPrinted =>
              /\ summary[1].items_with_bonus = Cardinality(BonusAt(Total))
              /\ summary[1].total_items = Total

\* a listing with both qlt and a bonus marker was summarised
C2_Witness ==
    /\ HasPrices
    /\ SummaryPrinted
    /\ \E j \in 1..Total : HasBonus(j) /\ HasQlt(j)
    /\ \E j \in 1..Total : ~HasBonus(j) /\ HasQlt(j)

----------------------------------------------------------------------------
(* C3 *)

\* C3: a listing without a bonus marker is left out of the buckets exactly when its
\* qlt is missing; one with qlt 0 has its price in the bucket of level 0, which is
\* reported under "Common"; the listings left out are still counted in the total.
C3_ZeroIsPresent ==
    HasPrices =>
        /\ \A j \in 1..i :
              (~HasBonus(j) /\ HasQlt(j)) =>
                  /\ QltOf(j) \in DOMAIN quality_prices
                  /\ Input[j]["price"] \in Range(quality_prices[QltOf(j)])
        /\ SumLens(quality_prices, DOMAIN quality_prices) = Cardinality(BucketedAt(i))
        /\ SummaryPrinted =>
              /\ summary[1].total_items = Cardinality(BucketedAt(Total))
                    + Cardinality(UnbucketedAt(Total)) + Cardinality(BonusAt(Total))
              /\ BucketAt(Total, 0) # {} =>
                    \E n \in 1..Len(sections) :
                        /\ sections[n].qlt = 0
                        /\ sections[n].name = "Common"
                        /\ sections[n].count = Cardinality(BucketAt(Total, 0))

\* a listing with qlt 0 and one without qlt, neither with a bonus marker, were summarised
C3_Witness ==
    /\ HasPrices
    /\ SummaryPrinted
    /\ BucketAt(Total, 0) # {}
    /\ UnbucketedAt(Total) # {}

----------------------------------------------------------------------------
(* C4 *)

TimeOf(j) == Input[j]["time"]

\* listing a comes before listing b in the order "time descending, ties in input order"
Before(a, b) == TimeOf(a) > TimeOf(b) \/ (TimeOf(a) = TimeOf(b) /\ a < b)

\* the sort has run on an input whose listings all carry a time
SortDone ==
    /\ HasPrices
    /\ Printed("recent_header")
    /\ \A j \in 1..Total : HasKey(j, "time")

\* C4: the recent list holds min(5, total) distinct listings of the full input, most
\* recent first and equal times in input order, and every listing it leaves out comes
\* after all of its entries in that order; a run that completes prints one row per
\* entry, in this order.
C4_RecentActivity ==
    SortDone =>
        /\ Len(recent_items) = Min2(RecentLimit, Total)
        /\ \A a \in 1..Len(recent_items) : recent_items[a] \in 1..Total
        /\ \A a, b \in 1..Len(recent_items) :
              a < b => Before(recent_items[a], recent_items[b])
        /\ \A j \in 1..Total :
              j \notin Range(recent_items) =>
                  \A a \in 1..Len(recent_items) : Before(recent_items[a], j)
        /\ \A a \in 1..Len(rows) :
              rows[a].idx = recent_items[a] /\ rows[a].time = TimeOf(recent_items[a])
        /\ Completed => Len(rows) = Min2(RecentLimit, Total)

\* a completed run on more than five listings, with a bonus listing among the rows,
\* rows of equal time, and a listing left out that ties with the last row
C4_Witness ==
    /\ SortDone
    /\ Completed
    /\ Total > RecentLimit
    /\ Len(rows) = RecentLimit
    /\ \E a \in 1..Len(rows) : rows[a].bonus_info
    /\ \E a \in 1..(Len(rows) - 1) : rows[a].time = rows[a + 1].time
    /\ \E j \in 1..Total : j \notin Range(recent_items) /\ TimeOf(j) = Last(rows).time
    /\ \E j \in 1..(Total - 1) : TimeOf(j) < TimeOf(j + 1)

----------------------------------------------------------------------------
(* C5 *)

\* requests.get raised
NetworkFailure == gets = 1 /\ response = NoResponse /\ pc # "requests_get"
\* the response carries an error status, 4xx or 5xx
StatusFailure == response # NoResponse /\ response.status_code >= 400
\* the body is not JSON, or the document has no prices field
ParseFailure ==
    /\ response # NoResponse
    /\ response.status_code < 400
    /\ ~response.is_json \/ "prices" \notin DOMAIN response.body

Diagnostics == {"error_fetching", "error_analyzing"}
AnalysisOutput == {"quality", "summary", "recent", "complete"}

\* C5: after a fetch failure or a parse failure the run prints no per-quality section,
\* no summary, no recent row and no completion message, and it ends on a diagnostic.
C5_NoPartialOutput ==
    (NetworkFailure \/ StatusFailure \/ ParseFailure) =>
        /\ Range(out) \cap AnalysisOutput = {}
        /\ sections = <<>> /\ summary = <<>> /\ rows = <<>>
        /\ pc = "done" => (out # <<>> /\ Last(out) \in Diagnostics)
        /\ pc \notin {"group", "report", "sort_recent", "recent", "complete"}

\* a run ended on an error status whose body was a well-formed document
C5_Witness ==
    /\ StatusFailure
    /\ response.is_json
    /\ "prices" \in DOMAIN response.body
    /\ pc = "done"

----------------------------------------------------------------------------
(* C6 *)

\* the step of the run a statement belongs to
Phase(p) ==
    CASE p \in {"fetch_auction_data", "requests_get", "raise_for_status", "response_json"} -> 1
      [] p \in {"analyze_prices", "group"} -> 2
      [] p \in {"report", "sort_recent", "recent"} -> 3
      [] p = "complete" -> 4
      [] p = "except" -> 5
      [] OTHER -> 6

C6_State ==
    /\ gets <= 1
    /\ Failed => pc \in {"except", "done"}
    /\ Failed => ~Completed
    /\ (Failed /\ pc = "done") => Last(out) \in Diagnostics
    /\ Completed =>
          /\ ~Failed
          /\ gets = 1
          /\ Printed("fetched")
          /\ HasPrices
          /\ i = Total
          /\ k = Cardinality(DOMAIN quality_prices)
          /\ SummaryPrinted
          /\ r = Len(recent_items)
          /\ Len(rows) = Min2(RecentLimit, Total)
          /\ Range(out) \cap Diagnostics = {}
          /\ Last(out) = "complete"

C6_Step ==
    /\ Phase(pc') >= Phase(pc)
    /\ gets' > gets => (pc = "requests_get" /\ gets = 0)
    /\ Failed =>
          /\ exception' = exception
          /\ gets' = gets
          /\ <<data, quality_prices, skipped_count, i, k, recent_items, r,
               sections, summary, rows>>' =
             <<data, quality_prices, skipped_count, i, k, recent_items, r,
               sections, summary, rows>>
          /\ out' = Append(out, IF exception = "RequestException"
                                THEN "error_fetching" ELSE "error_analyzing")
          /\ pc' = "done"
    /\ (~Failed /\ exception' # "none") => (pc' = "except" /\ out' \in {out, Append(out, "recent_header")})
    /\ pc = "done" => UNCHANGED vars

\* C6: the GET is issued at most once; the run only moves forward through fetch,
\* aggregate, report; after a failure the one step left prints the diagnostic and
\* ends the run, with no further fetch, aggregation or report; the completion
\* message is printed only by a run in which every step finished without error.
C6_FatalNoRetry == [](C6_State) /\ [][C6_Step]_vars

\* runs ended by a failure in each step: here one in the report, after the summary
C6_Witness ==
    /\ pc = "done"
    /\ Failed
    /\ SummaryPrinted
    /\ Last(out) = "error_analyzing"
    /\ gets = 1

----------------------------------------------------------------------------
(* C7 *)

EmptyInput == HasPrices /\ Input = <<>>

\* C7: on an empty prices sequence nothing raises; the run prints no quality
\* section and no recent row, a summary of 0 items and 0 with bonus, and completes.
C7_EmptyInput ==
    EmptyInput =>
        /\ ~Failed
        /\ pc # "except"
        /\ quality_prices = EmptyDict
        /\ sections = <<>>
        /\ recent_items = <<>>
        /\ rows = <<>>
        /\ Range(out) \cap ({"quality", "recent"} \cup Diagnostics) = {}
        /\ SummaryPrinted => summary = <<[total_items |-> 0, items_with_bonus |-> 0]>>
        /\ pc \in {"sort_recent", "recent", "complete", "done"} => SummaryPrinted
        /\ pc = "done" => Completed

\* the run on the empty input has completed
C7_Witness == EmptyInput /\ pc = "done" /\ Completed /\ SummaryPrinted

----------------------------------------------------------------------------
(* C8 *)

\* the section is the one of the non-bonus listings S with quality level q
SectionOf(sec, q, S) ==
    LET total == SumPrices(S)
        count == Cardinality(S)
    IN  /\ sec.qlt = q
        /\ sec.count = count
        /\ IsRounded(sec.average, total, count)
        /\ \E j \in S : Input[j]["price"] = sec.minimum
        /\ \A j \in S : Input[j]["price"] >= sec.minimum
        /\ \E j \in S : Input[j]["price"] = sec.maximum
        /\ \A j \in S : Input[j]["price"] <= sec.maximum
        /\ IsRounded(sec.standard, 9 * total, 10 * count)
        /\ IsRounded(sec.bargain, 11 * sec.minimum, 10)

\* the input of the example: qlt 0 twice, prices 100 and 200, no bonus marker
ExampleInput ==
    /\ Total = 2
    /\ \A j \in 1..2 : ~HasBonus(j) /\ HasQlt(j) /\ QltOf(j) = 0
    /\ {Input[1]["price"], Input[2]["price"]} = {100, 200}

\* C8: every section printed reports, for its quality level, the number of non-bonus
\* listings of that level, the mean, minimum and maximum of their prices, the mean
\* times 0.9 and the minimum times 1.1, each rounded to the nearest integer (an exact
\* half to the even one); the levels are reported once each, in ascending order. The
\* example input gives Common 150, 100, 200, count 2, 135, 110, total 2, bonus 0.
C8_Statistics ==
    HasPrices =>
        /\ \A n \in 1..Len(sections) :
              /\ BucketAt(Total, sections[n].qlt) # {}
              /\ SectionOf(sections[n], sections[n].qlt, BucketAt(Total, sections[n].qlt))
        /\ \A n, m \in 1..Len(sections) : n < m => sections[n].qlt < sections[m].qlt
        /\ SummaryPrinted =>
              \A j \in BucketedAt(Total) :
                  \E n \in 1..Len(sections) : sections[n].qlt = QltOf(j)
        /\ (SummaryPrinted /\ ExampleInput) =>
              /\ Len(sections) = 1
              /\ sections[1].name = "Common"
              /\ sections[1].average = 150
              /\ sections[1].minimum = 100
              /\ sections[1].maximum = 200
              /\ sections[1].count = 2
              /\ sections[1].standard = 135
              /\ sections[1].bargain = 110
              /\ summary[1].total_items = 2
              /\ summary[1].items_with_bonus = 0

\* the example was summarised
C8_Witness == HasPrices /\ SummaryPrinted /\ ExampleInput /\ Len(sections) = 1

----------------------------------------------------------------------------
(* C9 *)

QualityNames == <<"Common", "Uncommon", "Special", "Rare", "Legendary", "Exclusive">>

ExpectedName(q) == IF q \in 0..5 THEN QualityNames[q + 1] ELSE "Unknown"

\* C9: the six levels 0..5 carry six different names, in the order Common, Uncommon,
\* Special, Rare, Legendary, Exclusive; every section and every labelled row carries
\* the name of its level, "Unknown" when the level is outside 0..5; a listing with
\* such a level and no bonus marker is bucketed and gets its section.
C9_QualityNames ==
    HasPrices =>
        /\ \A n \in 1..Len(sections) : sections[n].name = ExpectedName(sections[n].qlt)
        /\ \A a \in 1..Len(rows) :
              HasQlt(rows[a].idx) => rows[a].quality_text = ExpectedName(QltOf(rows[a].idx))
        /\ \A j \in 1..i :
              (~HasBonus(j) /\ HasQlt(j) /\ QltOf(j) \notin 0..5) =>
                  QltOf(j) \in DOMAIN quality_prices
        /\ SummaryPrinted =>
              \A j \in 1..Total :
                  (~HasBonus(j) /\ HasQlt(j) /\ QltOf(j) \notin 0..5) =>
                      \E n \in 1..Len(sections) :
                          sections[n].qlt = QltOf(j) /\ sections[n].name = "Unknown"

\* a completed run reported level 5 as Exclusive and a level outside 0..5 as Unknown
C9_Witness ==
    /\ HasPrices
    /\ Completed
    /\ \E n \in 1..Len(sections) : sections[n].qlt = 5 /\ sections[n].name = "Exclusive"
    /\ \E n \in 1..Len(sections) : sections[n].qlt \notin 0..5 /\ sections[n].name = "Unknown"
    /\ \E a \in 1..Len(rows) : rows[a].quality_text = "Exclusive"

----------------------------------------------------------------------------
(* C10 *)

\* C10: a recent row carries the name of its listing's level exactly when the listing
\* has a qlt, level 0 as "Common", and no label otherwise; its bonus flag is set
\* exactly when the listing has a bonus marker, so the bonus listings left out of
\* the buckets still get their row.
C10_RecentRows ==
    HasPrices =>
        \A a \in 1..Len(rows) :
            LET j == rows[a].idx
            IN  /\ j \in 1..Total
                /\ HasQlt(j) => (rows[a].quality_text # "" /\ rows[a].quality_text = ExpectedName(QltOf(j)))
                /\ (HasQlt(j) /\ QltOf(j) = 0) => rows[a].quality_text = "Common"
                /\ ~HasQlt(j) => rows[a].quality_text = ""
                /\ rows[a].bonus_info <=> HasBonus(j)
                /\ rows[a].price = Input[j]["price"]

\* rows were printed for a level-0 listing, an unlabelled listing and a bonus listing
C10_Witness ==
    /\ HasPrices
    /\ \E a \in 1..Len(rows) : HasQlt(rows[a].idx) /\ QltOf(rows[a].idx) = 0 /\ ~rows[a].bonus_info
    /\ \E a \in 1..Len(rows) : rows[a].bonus_info /\ rows[a].quality_text = "Common"
    /\ skipped_count >= 1

====
